---- MODULE Spec2Model ----
(***************************************************************************)
(* MonoxityDB (src/src/index.ts): a key-value wrapper over one SQLite      *)
(* table (key TEXT PRIMARY KEY, value TEXT).  The model keeps the fields   *)
(* of the class, the rows of the table, one connect() call and one data    *)
(* call in flight (and the push of a second caller), each cut at its       *)
(* awaits, and the JSON and SQLite conversions at the boundary.            *)
(***************************************************************************)
EXTENDS Integers, Sequences, FiniteSets, TLC

\* Longest array a push may extend (bounds the table contents).
MaxLen == 2

----------------------------------------------------------------------------
\* JavaScript values.  A scalar is the number 1, NaN, null, undefined or an
\* object literal {a: 1}; a value is one scalar or an array of scalars.

\* What the callers push and pull.
Elems == {"n1", "obj"}

\* Scalars JSON can carry (NaN and undefined are not among them).
JsonElems == {"n1", "null", "obj"}

Scalar(e) == [arr |-> FALSE, items |-> <<e>>]

Arr(s) == [arr |-> TRUE, items |-> s]

Undefined == Scalar("undef")

\* A check that lets every value through.
IsArrayAlways(v) == TRUE

\* Array.isArray
IsArray(v) == v.arr

\* A value JSON.stringify/JSON.parse carry without loss.
JsonSerializable(v) == \A i \in 1..Len(v.items) : v.items[i] \in JsonElems

\* ===, as indexOf applies it: an object parsed from the stored text is a
\* fresh reference, identical to no other element and to no argument, and NaN
\* is not equal to itself.
StrictEquals(a, b) == a = b /\ a \notin {"obj", "nan"}

\* SameValueZero, as Set applies it: as ===, but NaN is equal to itself.
SameValueZero(a, b) == a = b /\ a # "obj"

----------------------------------------------------------------------------
\* JSON text, as a sequence of tokens.

\* JSON.stringify of a scalar: NaN becomes null, and so does undefined
\* inside an array.
StringifyElem(e) ==
  CASE e = "n1" -> "1"
    [] e = "null" -> "null"
    [] e = "obj" -> "{\"a\":1}"
    [] e = "nan" -> "null"
    [] e = "undef" -> "null"

\* JSON.stringify(value)
Stringify(v) ==
  IF v.arr
    THEN <<"[">> \o
         [i \in 1..(IF Len(v.items) = 0 THEN 0 ELSE 2 * Len(v.items) - 1) |->
            IF i % 2 = 1 THEN StringifyElem(v.items[(i + 1) \div 2]) ELSE ","] \o
         <<"]">>
    ELSE <<StringifyElem(v.items[1])>>

ParseElem(t) ==
  CASE t = "1" -> "n1"
    [] t = "null" -> "null"
    [] t = "{\"a\":1}" -> "obj"

\* JSON.parse(text)
Parse(text) ==
  IF text[1] = "["
    THEN Arr([i \in 1..((Len(text) - 1) \div 2) |-> ParseElem(text[2 * i])])
    ELSE Scalar(ParseElem(text[1]))

----------------------------------------------------------------------------
\* Array helpers of push and pull.

\* Array.prototype.indexOf (0-based, -1 when absent)
IndexOf(s, v) ==
  IF \E i \in 1..Len(s) : StrictEquals(s[i], v)
    THEN (CHOOSE i \in 1..Len(s) :
            /\ StrictEquals(s[i], v)
            /\ \A j \in 1..(i - 1) : ~StrictEquals(s[j], v)) - 1
    ELSE -1

\* Array.prototype.splice(start, deleteCount): the array that is left.
Splice(s, start, deleteCount) ==
  LET from == IF start < 0
                THEN (IF Len(s) + start < 0 THEN 0 ELSE Len(s) + start)
                ELSE (IF start > Len(s) THEN Len(s) ELSE start)
      cnt == IF deleteCount < 0 THEN 0
             ELSE IF deleteCount > Len(s) - from THEN Len(s) - from
             ELSE deleteCount
  IN  SubSeq(s, 1, from) \o SubSeq(s, from + cnt + 1, Len(s))

\* [...new Set(array)]: first occurrences, in insertion order.
RECURSIVE Dedupe(_)
Dedupe(s) ==
  IF s = <<>> THEN <<>>
  ELSE LET n == Len(s)
           init == Dedupe(SubSeq(s, 1, n - 1))
       IN  IF \E j \in 1..(n - 1) : SameValueZero(s[j], s[n])
             THEN init
             ELSE Append(init, s[n])

----------------------------------------------------------------------------
\* Keys.  A caller passes a string or a number; the key column has TEXT
\* affinity, so SQLite stores a bound number as its text and compares a bound
\* number with the column as text.

Keys == {"num:1", "str:1", "str:1b"}

KeyTexts == {"1", "1b"}

KeyText(k) ==
  CASE k = "num:1" -> "1"
    [] k = "str:1" -> "1"
    [] k = "str:1b" -> "1b"

\* The optional filter of getAll/getFirst: a key, or none given.
NoKey == "none"

\* t LIKE '%f%': f occurs in t.
Like(t, f) == t = f \/ (f = "1" /\ t = "1b")

----------------------------------------------------------------------------
\* The statements, on the table as a function from the key texts present to
\* the value texts.

\* INSERT OR IGNORE: an existing row is kept.
InsertOrIgnore(t, kt, text) ==
  [x \in DOMAIN t \cup {kt} |-> IF x \in DOMAIN t THEN t[x] ELSE text]

\* INSERT OR REPLACE INTO table (key, value) VALUES (?, ?)
InsertOrReplace(t, kt, text) ==
  [x \in DOMAIN t \cup {kt} |-> IF x = kt THEN text ELSE t[x]]

\* DELETE FROM table WHERE key LIKE '%' || ? || '%', the match getAll uses.
DeleteLike(t, kt) == [x \in {y \in DOMAIN t : ~Like(y, kt)} |-> t[x]]

\* DELETE FROM table WHERE key = ?
DeleteWhere(t, kt) == [x \in DOMAIN t \ {kt} |-> t[x]]

\* DELETE FROM table LIMIT 1: one row goes.
DeleteOne(t) ==
  IF DOMAIN t = {} THEN t
  ELSE LET gone == CHOOSE x \in DOMAIN t : TRUE
       IN  [x \in DOMAIN t \ {gone} |-> t[x]]

\* DELETE FROM table
DeleteAll(t) == [x \in {} |-> <<>>]

\* SELECT count(*) FROM table
CountRows(t) == Cardinality(DOMAIN t)

\* SELECT * FROM table [WHERE key LIKE '%filter%']: the rows selected.
SelectRows(t, filter) ==
  {kt \in DOMAIN t : filter = NoKey \/ Like(kt, KeyText(filter))}

\* limit || 5
EffectiveLimit(limit) == IF limit = 0 THEN 5 ELSE limit

\* data ? JSON.parse(data["value"]) : defaultValue  (SELECT * WHERE key = ?)
GetValue(t, k, defaultValue) ==
  IF KeyText(k) \in DOMAIN t THEN Parse(t[KeyText(k)]) ELSE defaultValue

\* isReady() without its check.
isReadyUnchecked(init) == TRUE

\* if (!this.initialized) throw: TRUE when the call may go on.
isReady(init) == init

\* currentData.push(value); if (destroyDuplicates) [...new Set(currentData)]
PushData(currentData, value, destroyDuplicates) ==
  LET pushed == Append(currentData, value)
  IN  IF destroyDuplicates THEN Dedupe(pushed) ELSE pushed

\* currentData.splice(currentData.indexOf(value), 1)
PullData(currentData, value) == Splice(currentData, IndexOf(currentData, value), 1)

----------------------------------------------------------------------------
\* Inputs.

SetValues ==
  {Scalar("n1"), Scalar("obj"), Scalar("nan"), Arr(<<>>), Arr(<<"n1", "obj", "n1">>)}

Defaults == {Undefined, Scalar("n1")}

Limits == {0, 1}

Filters == {NoKey, "str:1"}

----------------------------------------------------------------------------
VARIABLES
  initialized,  \* this.initialized
  database,     \* this.database: "undefined", "null" or "handle"
  tableExists,  \* the table has been created in the file
  rows,         \* the table: key text -> value text
  conn,         \* the connect() call in flight, or how the latest one ended
  call,         \* the data call in flight, or how the latest one ended
  call2,        \* the push of a second caller, likewise
  setVal,       \* key text -> value of the last successful set, while no
                \* later statement wrote or removed that row
  setKeys,      \* key texts set, and not deleted or destroyed since
  liveKeys      \* key texts written by set, push or pull, and not deleted
                \* or destroyed since

vars ==
  <<initialized, database, tableExists, rows, conn, call, call2, setVal, setKeys,
    liveKeys>>

NoRows == [x \in {} |-> <<>>]

NoValues == [x \in {} |-> Undefined]

NoResult == [kind |-> "none", value |-> Undefined, count |-> 0, list |-> {}]

IdleCall ==
  [pc |-> "idle", op |-> "none", key |-> NoKey, value |-> Undefined,
   dd |-> FALSE, limit |-> 0, flag |-> FALSE, prior |-> Undefined,
   cur |-> Undefined, stmts |-> 0, rout |-> "none", wout |-> "none",
   res |-> NoResult]

IdleConn ==
  [pc |-> "idle", open |-> "none", create |-> "none", res |-> "none"]

Init ==
  /\ initialized = FALSE
  /\ database = "undefined"
  /\ tableExists = FALSE
  /\ rows = NoRows
  /\ conn = IdleConn
  /\ call = IdleCall
  /\ call2 = IdleCall
  /\ setVal = NoValues
  /\ setKeys = {}
  /\ liveKeys = {}

\* The bookkeeping of setVal.
Remember(f, kt, v) == [x \in DOMAIN f \cup {kt} |-> IF x = kt THEN v ELSE f[x]]

Drop(f, kt) == [x \in DOMAIN f \ {kt} |-> f[x]]

\* Starting a call drops the outcome of the call that ended before it.
Forget(c, idle) == IF c.pc = "done" THEN idle ELSE c

----------------------------------------------------------------------------
\* connect(): open the file, then create the table.

\* The call starts: open() is handed to the driver.
connect ==
  /\ conn.pc \in {"idle", "done"}
  /\ conn' = [IdleConn EXCEPT !.pc = "open"]
  /\ call' = Forget(call, IdleCall)
  /\ UNCHANGED <<initialized, database, tableExists, rows, setVal, setKeys, liveKeys, call2>>

\* open() settles: this.database = await open(...).catch(() => null); with a
\* handle the CREATE TABLE statement is handed over, without one the call
\* returns this.initialized as it stands.
connectOpened(ok) ==
  /\ conn.pc = "open"
  /\ database' = IF ok THEN "handle" ELSE "null"
  /\ conn' = IF ok
               THEN [conn EXCEPT !.pc = "create", !.open = "ok"]
               ELSE [conn EXCEPT !.pc = "done", !.open = "fail",
                                 !.res = IF initialized THEN "true" ELSE "false"]
  /\ UNCHANGED <<initialized, tableExists, rows, call, setVal, setKeys, liveKeys, call2>>

\* CREATE TABLE IF NOT EXISTS settles: resolved, the flag is set and returned;
\* rejected, the await throws out of connect().
connectCreated(ok) ==
  /\ conn.pc = "create"
  /\ IF ok
       THEN /\ tableExists' = TRUE
            /\ initialized' = TRUE
            /\ conn' = [conn EXCEPT !.pc = "done", !.create = "ok", !.res = "true"]
       ELSE /\ conn' = [conn EXCEPT !.pc = "done", !.create = "fail", !.res = "throw"]
            /\ UNCHANGED <<tableExists, initialized>>
  /\ UNCHANGED <<database, rows, call, setVal, setKeys, liveKeys, call2>>

----------------------------------------------------------------------------
\* The data calls.  Each starts with its synchronous prefix: isReady(), then
\* the first statement handed to this.database.

Started(op, k, v, dd, limit) ==
  [IdleCall EXCEPT !.op = op, !.key = k, !.value = v, !.dd = dd,
                   !.limit = limit, !.flag = initialized,
                   !.prior = IF k = NoKey THEN Undefined
                             ELSE GetValue(rows, k, Undefined)]

Thrown(c, kind) == [c EXCEPT !.pc = "done", !.res.kind = kind]

Resolved(c, kind, v) == [c EXCEPT !.pc = "done", !.res.kind = kind, !.res.value = v]

Begin(op, k, v, dd, limit, pc) ==
  /\ call.pc \in {"idle", "done"}
  /\ call' =
       LET c == Started(op, k, v, dd, limit)
       IN  IF ~isReady(initialized) THEN Thrown(c, "NotInitialized")
           ELSE IF database # "handle" THEN Thrown(c, "TypeError")
           ELSE [c EXCEPT !.pc = pc, !.stmts = 1]
  /\ conn' = Forget(conn, IdleConn)
  /\ UNCHANGED <<initialized, database, tableExists, rows, setVal, setKeys, liveKeys, call2>>

set(k, v) == Begin("set", k, v, FALSE, 0, "write")

get(k, defaultValue) == Begin("get", k, defaultValue, FALSE, 0, "read")

getAll(filter) == Begin("getAll", filter, Undefined, FALSE, 0, "read")

getFirst(limit, filter) == Begin("getFirst", filter, Undefined, FALSE, limit, "read")

\* A push is taken only while the stored array is shorter than MaxLen.
push(k, e, destroyDuplicates) ==
  /\ KeyText(k) \in DOMAIN rows => Len(Parse(rows[KeyText(k)]).items) < MaxLen
  /\ Begin("push", k, Scalar(e), destroyDuplicates, 0, "read")

pull(k, e) == Begin("pull", k, Scalar(e), FALSE, 0, "read")

delete(k) == Begin("delete", k, Undefined, FALSE, 0, "write")

destroy == Begin("destroy", NoKey, Undefined, FALSE, 0, "write")

rowCount == Begin("rowCount", NoKey, Undefined, FALSE, 0, "read")

----------------------------------------------------------------------------
\* The continuations after each await.

\* The engine's reply to a statement: it can accept one only on a table that exists.
Reply(ok) == ok => tableExists

\* set: run(INSERT OR REPLACE).catch(() => null); success ? {key, value} : false
setReply(ok) ==
  /\ call.op = "set" /\ call.pc = "write" /\ Reply(ok)
  /\ LET kt == KeyText(call.key)
     IN  IF ok
           THEN /\ rows' = InsertOrReplace(rows, kt, Stringify(call.value))
                /\ call' = Resolved([call EXCEPT !.wout = "ok"], "ok", call.value)
                /\ setVal' = Remember(setVal, kt, call.value)
                /\ setKeys' = setKeys \cup {kt}
                /\ liveKeys' = liveKeys \cup {kt}
           ELSE /\ call' = Resolved([call EXCEPT !.wout = "rejected"], "false", Undefined)
                /\ UNCHANGED <<rows, setVal, setKeys, liveKeys>>
  /\ UNCHANGED <<initialized, database, tableExists, conn, call2>>

\* get: the SELECT is not guarded, so a rejection throws.
getReply(ok) ==
  /\ call.op = "get" /\ call.pc = "read" /\ Reply(ok)
  /\ call' = IF ok
               THEN Resolved([call EXCEPT !.rout = "ok"], "ok",
                             GetValue(rows, call.key, call.value))
               ELSE Thrown([call EXCEPT !.rout = "rejected"], "EngineError")
  /\ UNCHANGED <<initialized, database, tableExists, rows, conn, setVal, setKeys, liveKeys, call2>>

\* push and pull after their this.get(key, []) returned currentData: the array
\* check, then the write of the changed array handed to this.database as it
\* is by now.
AfterRead(ok, currentData, changed) ==
  IF ~ok THEN Thrown([call EXCEPT !.rout = "rejected"], "EngineError")
  ELSE LET c == [call EXCEPT !.rout = "ok"]
       IN  IF ~IsArray(currentData) THEN Thrown(c, "NotArray")
           ELSE IF database # "handle" THEN Thrown(c, "TypeError")
           ELSE [c EXCEPT !.pc = "write", !.stmts = 2, !.cur = Arr(changed)]

\* The write of push and pull: run(INSERT OR REPLACE) is not guarded, so a
\* rejection throws.
AfterWrite(ok) ==
  LET kt == KeyText(call.key)
  IN  IF ok
        THEN /\ rows' = InsertOrReplace(rows, kt, Stringify(call.cur))
             /\ call' = Resolved([call EXCEPT !.wout = "ok"], "ok", call.value)
             /\ setVal' = Drop(setVal, kt)
             /\ liveKeys' = liveKeys \cup {kt}
             /\ UNCHANGED setKeys
        ELSE /\ call' = Thrown([call EXCEPT !.wout = "rejected"], "EngineError")
             /\ UNCHANGED <<rows, setVal, setKeys, liveKeys>>

pushRead(ok) ==
  /\ call.op = "push" /\ call.pc = "read" /\ Reply(ok)
  /\ LET currentData == GetValue(rows, call.key, Arr(<<>>))
     IN  call' = AfterRead(ok, currentData,
                           PushData(currentData.items, call.value.items[1], call.dd))
  /\ UNCHANGED <<initialized, database, tableExists, rows, conn, setVal, setKeys, liveKeys, call2>>

pushWrite(ok) ==
  /\ call.op = "push" /\ call.pc = "write" /\ Reply(ok)
  /\ AfterWrite(ok)
  /\ UNCHANGED <<initialized, database, tableExists, conn, call2>>

pullRead(ok) ==
  /\ call.op = "pull" /\ call.pc = "read" /\ Reply(ok)
  /\ LET currentData == GetValue(rows, call.key, Arr(<<>>))
     IN  call' = AfterRead(ok, currentData,
                           PullData(currentData.items, call.value.items[1]))
  /\ UNCHANGED <<initialized, database, tableExists, rows, conn, setVal, setKeys, liveKeys, call2>>

pullWrite(ok) ==
  /\ call.op = "pull" /\ call.pc = "write" /\ Reply(ok)
  /\ AfterWrite(ok)
  /\ UNCHANGED <<initialized, database, tableExists, conn, call2>>

\* The rows of a result, each value parsed.
RowData(t, kts) == {[key |-> kt, value |-> Parse(t[kt])] : kt \in kts}

\* getAll: every selected row.
getAllReply(ok) ==
  /\ call.op = "getAll" /\ call.pc = "read" /\ Reply(ok)
  /\ call' =
       IF ok
         THEN [Resolved([call EXCEPT !.rout = "ok"], "ok", Undefined) EXCEPT
                 !.res.list = RowData(rows, SelectRows(rows, call.key))]
         ELSE Thrown([call EXCEPT !.rout = "rejected"], "EngineError")
  /\ UNCHANGED <<initialized, database, tableExists, rows, conn, setVal, setKeys, liveKeys, call2>>

\* getFirst: LIMIT rows of the selection, which ones being the engine's choice.
getFirstReply(ok) ==
  /\ call.op = "getFirst" /\ call.pc = "read" /\ Reply(ok)
  /\ IF ok
       THEN \E chosen \in SUBSET SelectRows(rows, call.key) :
              /\ \/ chosen = SelectRows(rows, call.key)
                 \/ Cardinality(chosen) = EffectiveLimit(call.limit)
              /\ Cardinality(chosen) <= EffectiveLimit(call.limit)
              /\ call' = [Resolved([call EXCEPT !.rout = "ok"], "ok", Undefined) EXCEPT
                            !.res.list = RowData(rows, chosen)]
       ELSE call' = Thrown([call EXCEPT !.rout = "rejected"], "EngineError")
  /\ UNCHANGED <<initialized, database, tableExists, rows, conn, setVal, setKeys, liveKeys, call2>>

\* delete: run(DELETE ... WHERE key = ?).catch(() => null); success ? true : false
deleteReply(ok) ==
  /\ call.op = "delete" /\ call.pc = "write" /\ Reply(ok)
  /\ LET kt == KeyText(call.key)
     IN  IF ok
           THEN /\ rows' = DeleteWhere(rows, kt)
                /\ call' = Resolved([call EXCEPT !.wout = "ok"], "ok", Undefined)
                /\ setVal' = Drop(setVal, kt)
                /\ setKeys' = setKeys \ {kt}
                /\ liveKeys' = liveKeys \ {kt}
           ELSE /\ call' = Resolved([call EXCEPT !.wout = "rejected"], "false", Undefined)
                /\ UNCHANGED <<rows, setVal, setKeys, liveKeys>>
  /\ UNCHANGED <<initialized, database, tableExists, conn, call2>>

\* destroy: run(DELETE FROM table).catch(() => null); success ? true : false
destroyReply(ok) ==
  /\ call.op = "destroy" /\ call.pc = "write" /\ Reply(ok)
  /\ IF ok
       THEN /\ rows' = DeleteAll(rows)
            /\ call' = Resolved([call EXCEPT !.wout = "ok"], "ok", Undefined)
            /\ setVal' = NoValues
            /\ setKeys' = {}
            /\ liveKeys' = {}
       ELSE /\ call' = Resolved([call EXCEPT !.wout = "rejected"], "false", Undefined)
            /\ UNCHANGED <<rows, setVal, setKeys, liveKeys>>
  /\ UNCHANGED <<initialized, database, tableExists, conn, call2>>

\* rowCount: data["count(*)"]; the SELECT is not guarded.
rowCountReply(ok) ==
  /\ call.op = "rowCount" /\ call.pc = "read" /\ Reply(ok)
  /\ call' =
       IF ok
         THEN [Resolved([call EXCEPT !.rout = "ok"], "ok", Undefined) EXCEPT
                 !.res.count = CountRows(rows)]
         ELSE Thrown([call EXCEPT !.rout = "rejected"], "EngineError")
  /\ UNCHANGED <<initialized, database, tableExists, rows, conn, setVal, setKeys, liveKeys, call2>>

----------------------------------------------------------------------------
\* Spec: one caller that awaits each call before the next.

\* No call is in flight.
Quiet == conn.pc \in {"idle", "done"} /\ call.pc \in {"idle", "done"}

Next ==
  \/ Quiet /\ connect
  \/ \E ok \in BOOLEAN : connectOpened(ok)
  \/ \E ok \in BOOLEAN : connectCreated(ok)
  \/ Quiet /\ \E k \in Keys, v \in SetValues : set(k, v)
  \/ Quiet /\ \E k \in Keys, d \in Defaults : get(k, d)
  \/ Quiet /\ \E f \in Filters : getAll(f)
  \/ Quiet /\ \E n \in Limits, f \in Filters : getFirst(n, f)
  \/ Quiet /\ \E k \in Keys, e \in Elems, dd \in BOOLEAN : push(k, e, dd)
  \/ Quiet /\ \E k \in Keys, e \in Elems : pull(k, e)
  \/ Quiet /\ \E k \in Keys : delete(k)
  \/ Quiet /\ destroy
  \/ Quiet /\ rowCount
  \/ \E ok \in BOOLEAN : setReply(ok)
  \/ \E ok \in BOOLEAN : getReply(ok)
  \/ \E ok \in BOOLEAN : pushRead(ok)
  \/ \E ok \in BOOLEAN : pushWrite(ok)
  \/ \E ok \in BOOLEAN : pullRead(ok)
  \/ \E ok \in BOOLEAN : pullWrite(ok)
  \/ \E ok \in BOOLEAN : getAllReply(ok)
  \/ \E ok \in BOOLEAN : getFirstReply(ok)
  \/ \E ok \in BOOLEAN : deleteReply(ok)
  \/ \E ok \in BOOLEAN : destroyReply(ok)
  \/ \E ok \in BOOLEAN : rowCountReply(ok)

Spec == Init /\ [][Next]_vars

----------------------------------------------------------------------------
\* SpecOverlap: the caller does not await connect() before the data calls, so
\* a data call can start and run while connect() is in flight, and the other
\* way round.

\* The inputs of the overlapping calls.
OverlapKeys == {"num:1", "str:1b"}

OverlapValues == {Scalar("n1"), Arr(<<>>)}

OverlapElems == {"n1"}

NextOverlap ==
  \/ connect
  \/ \E ok \in BOOLEAN : connectOpened(ok)
  \/ \E ok \in BOOLEAN : connectCreated(ok)
  \/ \E k \in OverlapKeys, v \in OverlapValues : set(k, v)
  \/ \E k \in OverlapKeys, d \in Defaults : get(k, d)
  \/ \E f \in Filters : getAll(f)
  \/ \E n \in Limits, f \in Filters : getFirst(n, f)
  \/ \E k \in OverlapKeys, e \in OverlapElems, dd \in BOOLEAN : push(k, e, dd)
  \/ \E k \in OverlapKeys, e \in OverlapElems : pull(k, e)
  \/ \E k \in OverlapKeys : delete(k)
  \/ destroy
  \/ rowCount
  \/ \E ok \in BOOLEAN : setReply(ok)
  \/ \E ok \in BOOLEAN : getReply(ok)
  \/ \E ok \in BOOLEAN : pushRead(ok)
  \/ \E ok \in BOOLEAN : pushWrite(ok)
  \/ \E ok \in BOOLEAN : pullRead(ok)
  \/ \E ok \in BOOLEAN : pullWrite(ok)
  \/ \E ok \in BOOLEAN : getAllReply(ok)
  \/ \E ok \in BOOLEAN : getFirstReply(ok)
  \/ \E ok \in BOOLEAN : deleteReply(ok)
  \/ \E ok \in BOOLEAN : destroyReply(ok)
  \/ \E ok \in BOOLEAN : rowCountReply(ok)

SpecOverlap == Init /\ [][NextOverlap]_vars

----------------------------------------------------------------------------
\* SpecRace: two callers push on one store without awaiting each other.  The
\* second caller's push runs the same code on its own locals.

\* A push that reads the row again in the statement that writes it.
FreshData(c, t) ==
  Arr(PushData(GetValue(t, c.key, Arr(<<>>)).items, c.value.items[1], c.dd))

\* The array a push binds to its INSERT OR REPLACE: JSON.stringify(currentData)
\* of the local it filled before the await, whatever the row holds by now.
WriteData(c, t) == c.cur

\* push(key, value, destroyDuplicates) by the second caller.
push2(k, e, destroyDuplicates) ==
  /\ call2.pc \in {"idle", "done"}
  /\ KeyText(k) \in DOMAIN rows => Len(Parse(rows[KeyText(k)]).items) < MaxLen
  /\ call2' =
       LET c == [Started("push", k, Scalar(e), destroyDuplicates, 0) EXCEPT
                   !.prior = GetValue(rows, k, Undefined)]
       IN  IF ~isReady(initialized) THEN Thrown(c, "NotInitialized")
           ELSE IF database # "handle" THEN Thrown(c, "TypeError")
           ELSE [c EXCEPT !.pc = "read", !.stmts = 1]
  /\ conn' = Forget(conn, IdleConn)
  /\ UNCHANGED <<initialized, database, tableExists, rows, call, setVal, setKeys, liveKeys>>

\* The second caller's push after its this.get(key, []).
push2Read(ok) ==
  /\ call2.op = "push" /\ call2.pc = "read" /\ Reply(ok)
  /\ call2' =
       IF ~ok THEN Thrown([call2 EXCEPT !.rout = "rejected"], "EngineError")
       ELSE LET c == [call2 EXCEPT !.rout = "ok"]
                currentData == GetValue(rows, call2.key, Arr(<<>>))
            IN  IF ~IsArray(currentData) THEN Thrown(c, "NotArray")
                ELSE IF database # "handle" THEN Thrown(c, "TypeError")
                ELSE [c EXCEPT !.pc = "write", !.stmts = 2,
                               !.cur = Arr(PushData(currentData.items,
                                                    call2.value.items[1], call2.dd))]
  /\ UNCHANGED <<initialized, database, tableExists, rows, conn, call, setVal, setKeys, liveKeys>>

\* The second caller's push after its run(INSERT OR REPLACE).
push2Write(ok) ==
  /\ call2.op = "push" /\ call2.pc = "write" /\ Reply(ok)
  /\ LET kt == KeyText(call2.key)
     IN  IF ok
           THEN /\ rows' = InsertOrReplace(rows, kt, Stringify(WriteData(call2, rows)))
                /\ call2' = Resolved([call2 EXCEPT !.wout = "ok"], "ok", call2.value)
                /\ setVal' = Drop(setVal, kt)
                /\ liveKeys' = liveKeys \cup {kt}
                /\ UNCHANGED setKeys
           ELSE /\ call2' = Thrown([call2 EXCEPT !.wout = "rejected"], "EngineError")
                /\ UNCHANGED <<rows, setVal, setKeys, liveKeys>>
  /\ UNCHANGED <<initialized, database, tableExists, conn, call>>

\* The inputs of the racing pushes.
RaceKeys == {"num:1", "str:1"}

RaceElems == {"n1"}

RaceElems2 == {"obj"}

NextRace ==
  \/ Quiet /\ call2.pc \in {"idle", "done"} /\ connect
  \/ \E ok \in BOOLEAN : connectOpened(ok)
  \/ \E ok \in BOOLEAN : connectCreated(ok)
  \/ \E k \in RaceKeys, e \in RaceElems, dd \in BOOLEAN : push(k, e, dd)
  \/ \E ok \in BOOLEAN : pushRead(ok)
  \/ \E ok \in BOOLEAN : pushWrite(ok)
  \/ \E k \in RaceKeys, e \in RaceElems2, dd \in BOOLEAN : push2(k, e, dd)
  \/ \E ok \in BOOLEAN : push2Read(ok)
  \/ \E ok \in BOOLEAN : push2Write(ok)

SpecRace == Init /\ [][NextRace]_vars

----------------------------------------------------------------------------
\* The claims.

\* C1: while the ready flag is false, also while the first connect() is in
\* flight, every data call throws the "not initialized" error at once and
\* hands no statement to the engine, and no step changes the table.
C1_NotReadyThrows ==
  /\ [](call.pc # "idle" /\ ~call.flag =>
          /\ call.pc = "done"
          /\ call.res.kind = "NotInitialized"
          /\ call.stmts = 0
          /\ call.rout = "none" /\ call.wout = "none")
  /\ [][~initialized => rows' = rows]_vars

\* A push called while the first connect() is still opening the file.
C1_Witness ==
  /\ conn.pc = "open" /\ ~initialized
  /\ call.op = "push" /\ call.pc = "done" /\ call.res.kind = "NotInitialized"

\* C2: when a connect() call has ended, the ready flag is true only if both
\* its open step and its create-table step succeeded, and when either failed
\* the flag is false and the call returned false instead of throwing.
C2_ConnectFlag ==
  conn.pc = "done" =>
    IF conn.open = "ok" /\ conn.create = "ok"
      THEN initialized /\ conn.res = "true"
      ELSE ~initialized /\ conn.res = "false"

\* The value is a sequence.
IsSequence(v) == v.arr

\* What get(k) returns at present, when the engine answers.
Stored(k) == GetValue(rows, k, Undefined)

\* The data call has ended and its write was accepted by the engine.
Wrote(op) == call.op = op /\ call.pc = "done" /\ call.wout = "ok"

\* C3: a get(k) that the engine answers, after a successful set(k, v) of a
\* JSON-serializable v with no write to the row of k in between, returns a
\* value equal to v, whatever the row held before the set.
C3_SetThenGet ==
  LET kt == KeyText(call.key)
  IN  (/\ call.op = "get" /\ call.pc = "done" /\ call.res.kind = "ok"
       /\ kt \in DOMAIN setVal
       /\ JsonSerializable(setVal[kt]))
      => call.res.value = setVal[kt]

\* A get that returns the object last set at its key.
C3_Witness ==
  /\ call.op = "get" /\ call.pc = "done" /\ call.res.kind = "ok"
  /\ KeyText(call.key) \in DOMAIN setVal
  /\ setVal[KeyText(call.key)] = Scalar("obj")
  /\ call.res.value = Scalar("obj")

\* v occurs in the sequence s (equal by value).
Contains(s, v) == \E i \in 1..Len(s) : s[i] = v

\* s without its first element equal to v.
RECURSIVE WithoutFirst(_, _)
WithoutFirst(s, v) ==
  IF s = <<>> THEN <<>>
  ELSE IF Head(s) = v THEN Tail(s)
  ELSE <<Head(s)>> \o WithoutFirst(Tail(s), v)

\* How many elements of s are equal to v.
RECURSIVE Occurrences(_, _)
Occurrences(s, v) ==
  IF s = <<>> THEN 0
  ELSE (IF Head(s) = v THEN 1 ELSE 0) + Occurrences(Tail(s), v)

\* C4: a pull(k, v) whose write is accepted, on a stored sequence that does
\* not contain v, leaves the sequence read back by get(k) as it was.
C4_PullAbsentKeeps ==
  (/\ Wrote("pull")
   /\ IsSequence(call.prior)
   /\ ~Contains(call.prior.items, call.value.items[1]))
  => Stored(call.key) = call.prior

\* C5: a pull(k, v) whose write is accepted, on a stored sequence that
\* contains v, leaves the sequence without its first element equal to v.
C5_PullRemovesFirst ==
  (/\ Wrote("pull")
   /\ IsSequence(call.prior)
   /\ Contains(call.prior.items, call.value.items[1]))
  => Stored(call.key) = Arr(WithoutFirst(call.prior.items, call.value.items[1]))

\* C6: a push(k, v) whose write is accepted makes get(k) equal to [v] on an
\* absent key and to [v, v] on a key holding [v] when destroyDuplicates is
\* not given, and with destroyDuplicates leaves a sequence holding v once.
C6_Push ==
  LET v == call.value.items[1]
  IN  Wrote("push") =>
        /\ call.prior = Undefined => Stored(call.key) = Arr(<<v>>)
        /\ (call.prior = Arr(<<v>>) /\ ~call.dd) => Stored(call.key) = Arr(<<v, v>>)
        /\ call.dd => /\ IsSequence(Stored(call.key))
                      /\ Occurrences(Stored(call.key).items, v) = 1

\* C7, as claimed: rowCount() returns the number of distinct keys set and not
\* deleted or destroyed since.
C7_CountsSetKeys ==
  (call.op = "rowCount" /\ call.pc = "done" /\ call.res.kind = "ok")
  => call.res.count = Cardinality(setKeys)

\* C7, amended: rowCount() returns the number of distinct keys (as stored)
\* written by a successful set, push or pull and not deleted or destroyed
\* since, and the table counts no row once destroy() has succeeded.
C7_CountsWrittenKeys ==
  /\ (call.op = "rowCount" /\ call.pc = "done" /\ call.res.kind = "ok")
     => call.res.count = Cardinality(liveKeys)
  /\ Wrote("destroy") => CountRows(rows) = 0

\* rowCount() returns 1 when the only row was made by a push.
C7_Witness ==
  /\ call.op = "rowCount" /\ call.pc = "done" /\ call.res.kind = "ok"
  /\ call.res.count = 1 /\ setKeys = {} /\ liveKeys # {}

\* C8: when the engine rejects the write or delete statement of set, push,
\* pull, delete or destroy, the call resolves to false and the row of its key
\* is as before the call.
C8_RejectedWriteIsFalse ==
  (call.pc = "done" /\ call.wout = "rejected") =>
    /\ call.res.kind = "false"
    /\ call.key # NoKey => Stored(call.key) = call.prior

\* The stored value at the key of the data call was not an array at its start.
OnNonArray ==
  /\ call.op \in {"push", "pull"}
  /\ call.prior # Undefined /\ ~IsSequence(call.prior)

\* C9: a push or pull on a key whose stored value is not an array never
\* reaches its write, throws the "does not return an array" error once its
\* read is answered, and leaves every row as it was.
C9_NonArrayThrows ==
  /\ [](OnNonArray =>
          /\ call.pc # "write" /\ call.wout = "none" /\ call.stmts <= 1
          /\ (call.pc = "done" /\ call.rout = "ok") => call.res.kind = "NotArray"
          /\ Stored(call.key) = call.prior)
  /\ [][(OnNonArray /\ call.pc = "read") => rows' = rows]_vars

\* A push on a key that holds an object has thrown the array error.
C9_Witness ==
  /\ call.op = "push" /\ call.pc = "done" /\ call.res.kind = "NotArray"
  /\ call.prior = Scalar("obj")

\* C10: a delete(k) the engine accepts returns true, with or without a row at
\* k before; afterwards get of k, under each of its spellings, returns the
\* default given, and every row under another key is as it was.
C10_DeleteFrame ==
  /\ [](Wrote("delete") =>
          /\ call.res.kind = "ok"
          /\ \A k \in Keys, d \in Defaults :
               KeyText(k) = KeyText(call.key) => GetValue(rows, k, d) = d)
  /\ [][(call.op = "delete" /\ call.pc = "write" /\ call'.wout = "ok") =>
          /\ DOMAIN rows' = DOMAIN rows \ {KeyText(call.key)}
          /\ \A kt \in DOMAIN rows' : rows'[kt] = rows[kt]
          /\ \A k \in Keys, d \in Defaults :
               KeyText(k) # KeyText(call.key) =>
                 GetValue(rows', k, d) = GetValue(rows, k, d)]_vars

\* A delete has removed the row of its key and the other row is still there.
C10_Witness ==
  /\ Wrote("delete") /\ call.res.kind = "ok"
  /\ call.prior # Undefined
  /\ DOMAIN rows # {}

\* What get(k, []) returns at present, when the engine answers.
StoredOrEmpty(k) == GetValue(rows, k, Arr(<<>>))

\* The two callers' latest pushes went to the same row and both were written.
BothPushed ==
  /\ call.op = "push" /\ call.pc = "done" /\ call.wout = "ok"
  /\ call2.op = "push" /\ call2.pc = "done" /\ call2.wout = "ok"
  /\ KeyText(call.key) = KeyText(call2.key)

\* The two callers' pushes are both between their read and their write of the
\* same row.
Overlapping ==
  /\ call.op = "push" /\ call.pc = "write"
  /\ call2.op = "push" /\ call2.pc = "write"
  /\ KeyText(call.key) = KeyText(call2.key)

\* C11: push is an unprotected read-modify-write.  A second push on the same
\* key may read while the first is between its read and its write (nothing
\* the first has done keeps the second from starting or reading); each push
\* then writes the sequence it read with its own value appended, over whatever
\* the row holds by then, and reports success with its value.  So after two
\* accepted pushes on one key the stored sequence is the local sequence of one
\* of them (the last writer's), never a merge of the two.
C11_PushNotSerialized ==
  /\ [][(call2.op = "push" /\ call2.pc = "read" /\ call2'.pc = "write") =>
          /\ call' = call
          /\ ~call2.dd =>
               call2'.cur.items = Append(StoredOrEmpty(call2.key).items,
                                         call2.value.items[1])]_vars
  /\ [][(call2.op = "push" /\ call2.pc = "write" /\ call2'.wout = "ok") =>
          /\ GetValue(rows', call2.key, Undefined) = call2.cur
          /\ call2'.res.kind = "ok" /\ call2'.res.value = call2.value]_vars
  /\ [][(call.op = "push" /\ call.pc = "write" /\ call'.wout = "ok") =>
          /\ GetValue(rows', call.key, Undefined) = call.cur
          /\ call'.res.kind = "ok" /\ call'.res.value = call.value]_vars
  /\ [](BothPushed =>
          /\ call.res.kind = "ok" /\ call2.res.kind = "ok"
          /\ Stored(call.key) \in {call.cur, call2.cur})

\* Two pushes of different values on one key overlapped, both reported
\* success, and the stored sequence holds only the second caller's value: the
\* first caller's update is lost.
C11_Witness ==
  /\ BothPushed
  /\ call.res.kind = "ok" /\ call2.res.kind = "ok"
  /\ call.value # call2.value
  /\ call.prior = call2.prior /\ call.cur # call2.cur
  /\ IsSequence(Stored(call.key))
  /\ Contains(Stored(call.key).items, call2.value.items[1])
  /\ ~Contains(Stored(call.key).items, call.value.items[1])

====
